---- MODULE Spec2Model ----
(***************************************************************************)
(* A model of eppi: the replay analyzer (src/src/peppi.rs), the rank tier  *)
(* tables (src/src/peppi.rs, src/src/web.rs) and the UI handlers that      *)
(* drive them (src/src/app.rs).                                            *)
(*                                                                         *)
(* Option<T> is modelled as a sequence of length 0 (None) or 1 (Some(x)).  *)
(***************************************************************************)
EXTENDS Integers, Sequences, FiniteSets, TLC

VARIABLES
    replays,          \* ReplayAnalyzer.replays: Vec<ReplayInfo>
    rank_cache,       \* ReplayAnalyzer.rank_cache: HashMap<String, String>
    connect_code,     \* Eppi.connect_code
    replay_dir,       \* Eppi.replay_dir
    is_scanning,      \* Eppi.is_scanning
    scan_status,      \* Eppi.scan_status (the kind of message shown)
    is_fetching_rank, \* Eppi.is_fetching_rank
    rank_receiver,    \* Eppi.rank_receiver: Option<Receiver>, the channel's id
    channel,          \* messages sent on the channel rank_receiver holds, undrained
    tasks,            \* rank-fetch tasks spawned on the runtime and not yet ended
    requests,         \* how many network requests were issued for each tag
    crashed,          \* a panic unwound out of a handler: the process is gone
    pc,               \* position of the standalone main() of peppi.rs
    scanned,          \* the directory listing main()'s scan_directory call walked
    collected,        \* file paths in the order the workers delivered them to it
    scan_result,      \* how the last scan_directory call ended
    stats,            \* the last get_stats_for_player call: its tag and its result
    spawned,          \* how many rank-fetch tasks (and channels) were created
    tier,             \* the last tier-table evaluation: its inputs and both labels
    fetch,            \* the last response web.rs fetch_player_rank handled, and its outcome
    parsed            \* the last file parse_replay was called on, and its outcome

vars == << replays, rank_cache, connect_code, replay_dir, is_scanning, scan_status,
           is_fetching_rank, rank_receiver, channel, tasks, requests, crashed, pc,
           scanned, collected, scan_result, stats, spawned, tier, fetch, parsed >>

-----------------------------------------------------------------------------
(* Bounds of the model *)

MaxFiles == 3

MaxDate == 2

MaxAppFiles == 2

MaxEndPlayers == 2

MaxStartPlayers == 3

\* entries of a frame-index stream
MaxFrames == 3

MaxSpawn == 4

MaxRating == 2999

BelowZero == 1

None == << >>

Some(x) == << x >>

IsSome(o) == Len(o) = 1

Unwrap(o) == o[1]

-----------------------------------------------------------------------------
(* The decoded game and parse_replay *)

\* extract_names_from_metadata: players.<i>.names.code, "Unknown" per missing field
code_or_unknown(players, i) ==
    IF IsSome(players[i]) THEN Unwrap(players[i]) ELSE "Unknown"

extract_names_from_metadata(metadata) ==
    IF IsSome(metadata.players)
    THEN << code_or_unknown(Unwrap(metadata.players), 1),
            code_or_unknown(Unwrap(metadata.players), 2) >>
    ELSE << "Unknown", "Unknown" >>

\* the names extract_player_info gives to the start entries: the first gets
\* player1_name, every other one player2_name
player_names(game) ==
    IF IsSome(game.metadata)
    THEN extract_names_from_metadata(Unwrap(game.metadata))
    ELSE << "Unknown", "Unknown" >>

players_info(game) ==
    [ i \in 1..Len(game.start_players) |->
        [ name |-> IF i = 1 THEN player_names(game)[1] ELSE player_names(game)[2],
          port |-> game.start_players[i] ] ]

\* extract_player_info asking for three start entries
extract_player_info_three(game) ==
    IF Len(players_info(game)) >= 3
    THEN [ ok |-> TRUE, player1 |-> players_info(game)[1], player2 |-> players_info(game)[2] ]
    ELSE [ ok |-> FALSE, error |-> "Not enough players found in replay" ]

\* extract_player_info: Ok((players_info[0], players_info[1])) or Err
extract_player_info(game) ==
    IF Len(players_info(game)) >= 2
    THEN [ ok |-> TRUE, player1 |-> players_info(game)[1], player2 |-> players_info(game)[2] ]
    ELSE [ ok |-> FALSE, error |-> "Not enough players found in replay" ]

\* the for loop of determine_game_result without its early return: the last
\* entry with placement 0 decides
RECURSIVE first_winner_last(_)
first_winner_last(players) ==
    IF players = << >> THEN "Unknown"
    ELSE IF first_winner_last(Tail(players)) # "Unknown"
         THEN first_winner_last(Tail(players))
         ELSE IF Head(players).placement = 0
         THEN ( IF Head(players).port \in {1, 3} THEN "Player1Won" ELSE "Player2Won" )
         ELSE "Unknown"

\* the for loop of determine_game_result: the first entry with placement 0 decides
RECURSIVE first_winner(_)
first_winner(players) ==
    IF players = << >> THEN "Unknown"
    ELSE IF Head(players).placement = 0
         THEN ( IF Head(players).port \in {1, 3} THEN "Player1Won" ELSE "Player2Won" )
         ELSE first_winner(Tail(players))

determine_game_result(game) ==
    IF IsSome(game.end) /\ IsSome(Unwrap(game.end).players)
    THEN first_winner(Unwrap(Unwrap(game.end).players))
    ELSE "Unknown"

\* extract_game_duration falling back on the last entry that is not null
RECURSIVE extract_game_duration_last_non_null(_)
extract_game_duration_last_non_null(game) ==
    IF Len(game.frames) = 0 THEN None
    ELSE IF IsSome(game.frames[Len(game.frames)])
    THEN Some(Unwrap(game.frames[Len(game.frames)]))
    ELSE extract_game_duration_last_non_null(
             [ game EXCEPT !.frames = SubSeq(game.frames, 1, Len(game.frames) - 1) ])

\* extract_game_duration: the last entry of frames.id, when it is not null
extract_game_duration(game) ==
    IF Len(game.frames) > 0 /\ IsSome(game.frames[Len(game.frames)])
    THEN Some(Unwrap(game.frames[Len(game.frames)]))
    ELSE None

\* a connect code in the metadata, absent for a player whose name is unknown
names_code(name) == IF name = "Unknown" THEN None ELSE Some(name)

\* what the decoder makes of a file's bytes: the game a "game" file carries, or
\* else a game with two (or fewer) start entries on ports 1 and 2, the metadata
\* (absent when neither name is known) and the end-of-game placements
slippi_read(file) ==
    IF file.kind = "game" THEN file.game ELSE
    [ metadata |-> IF file.names = << "Unknown", "Unknown" >> THEN None
                   ELSE Some([ players |-> Some(<< names_code(file.names[1]),
                                                   names_code(file.names[2]) >>) ]),
      start_players |-> IF file.kind = "few_players" THEN << 1 >> ELSE << 1, 2 >>,
      end |-> IF file.winner = "none" THEN None
              ELSE Some([ players |-> Some(
                     << [ port |-> 1, placement |-> IF file.winner = "p1" THEN 0 ELSE 1 ],
                        [ port |-> 2, placement |-> IF file.winner = "p2" THEN 0 ELSE 1 ] >>) ]),
      frames |-> << Some(1) >> ]

\* parse_replay: File::open, slippi::read, extract_player_info,
\* determine_game_result, extract_game_duration, fs::metadata.  A decoder that
\* panics unwinds out of parse_replay: nothing in it catches.
parse_replay(file) ==
    IF file.kind = "open_fail" THEN [ tag |-> "Err", error |-> "open" ]
    ELSE IF file.kind = "fault" THEN [ tag |-> "Panic" ]
    ELSE IF file.kind = "decode_err"
    THEN [ tag |-> "Err", error |-> "Failed to parse replay" ]
    ELSE LET game == slippi_read(file)
             players == extract_player_info(game)
         IN  IF ~players.ok THEN [ tag |-> "Err", error |-> players.error ]
             ELSE [ tag |-> "Ok",
                    info |-> [ file_path |-> file.path,
                               player1 |-> players.player1,
                               player2 |-> players.player2,
                               result |-> determine_game_result(game),
                               duration |-> extract_game_duration(game),
                               date |-> file.mtime,
                               opponent_rank |-> None ] ]

-----------------------------------------------------------------------------
(* scan_directory *)

\* the first filter_map of scan_directory: walk errors are dropped, and so is
\* every entry that is not a regular file with extension "slp"
is_candidate(entry) ==
    /\ entry.kind # "walk_err"
    /\ entry.kind # "dir"
    /\ entry.kind # "other"

\* the comparator handed to sort_by
date_cmp_oldest_first(a, b) ==
    IF IsSome(a.date) /\ IsSome(b.date)
    THEN ( IF Unwrap(a.date) < Unwrap(b.date) THEN "Less"
           ELSE IF Unwrap(a.date) > Unwrap(b.date) THEN "Greater" ELSE "Equal" )
    ELSE IF IsSome(a.date) THEN "Less"
    ELSE IF IsSome(b.date) THEN "Greater"
    ELSE "Equal"

date_cmp(a, b) ==
    IF IsSome(a.date) /\ IsSome(b.date)
    THEN ( IF Unwrap(b.date) < Unwrap(a.date) THEN "Less"
           ELSE IF Unwrap(b.date) > Unwrap(a.date) THEN "Greater" ELSE "Equal" )
    ELSE IF IsSome(a.date) THEN "Less"
    ELSE IF IsSome(b.date) THEN "Greater"
    ELSE "Equal"

\* slice::sort_by is a stable sort: x goes before the first element it is Less than
RECURSIVE insert_stable(_, _)
insert_stable(sorted, x) ==
    IF sorted = << >> THEN << x >>
    ELSE IF date_cmp(x, Head(sorted)) = "Less" THEN << x >> \o sorted
    ELSE << Head(sorted) >> \o insert_stable(Tail(sorted), x)

RECURSIVE sort_by(_)
sort_by(v) ==
    IF v = << >> THEN << >>
    ELSE insert_stable(sort_by(SubSeq(v, 1, Len(v) - 1)), v[Len(v)])

\* par_bridge().filter_map(parse_replay).collect(): the successes, in the order
\* the workers delivered them (delivery is the sequence of files `order`)
RECURSIVE collect(_)
collect(order) ==
    IF order = << >> THEN << >>
    ELSE IF parse_replay(Head(order)).tag = "Ok"
         THEN << parse_replay(Head(order)).info >> \o collect(Tail(order))
         ELSE collect(Tail(order))

\* scan_directory on the candidates delivered in `order`: a panic in a worker is
\* re-raised by rayon in the caller, before self.replays is assigned
scan_directory(old_replays, order) ==
    IF \E i \in 1..Len(order) : parse_replay(order[i]).tag = "Panic"
    THEN [ result |-> "Panic", replays |-> old_replays ]
    ELSE [ result |-> "Ok", replays |-> sort_by(collect(order)) ]

-----------------------------------------------------------------------------
(* get_stats_for_player *)

\* get_stats_for_player with the player2 arm a copy of the player1 arm
RECURSIVE get_stats_for_player_copied_arm(_, _)
get_stats_for_player_copied_arm(rs, player_tag) ==
    IF rs = << >> THEN << 0, 0 >>
    ELSE LET rest == get_stats_for_player_copied_arm(Tail(rs), player_tag)
             replay == Head(rs)
         IN  IF replay.player1.name = player_tag \/ replay.player2.name = player_tag
             THEN ( IF replay.result = "Player1Won" THEN << rest[1] + 1, rest[2] >>
                    ELSE IF replay.result = "Player2Won" THEN << rest[1], rest[2] + 1 >>
                    ELSE rest )
             ELSE rest

RECURSIVE get_stats_for_player(_, _)
get_stats_for_player(rs, player_tag) ==
    IF rs = << >> THEN << 0, 0 >>
    ELSE LET rest == get_stats_for_player(Tail(rs), player_tag)
             replay == Head(rs)
         IN  IF replay.player1.name = player_tag
             THEN ( IF replay.result = "Player1Won" THEN << rest[1] + 1, rest[2] >>
                    ELSE IF replay.result = "Player2Won" THEN << rest[1], rest[2] + 1 >>
                    ELSE rest )
             ELSE IF replay.player2.name = player_tag
             THEN ( IF replay.result = "Player1Won" THEN << rest[1], rest[2] + 1 >>
                    ELSE IF replay.result = "Player2Won" THEN << rest[1] + 1, rest[2] >>
                    ELSE rest )
             ELSE rest

-----------------------------------------------------------------------------
(* Inputs: directory listings *)

Tags == { "A", "B", "Unknown" }

\* what a directory entry can be: a replay that parses ("ok"), one that fails
\* in one of four ways ("open_fail", "decode_err", "few_players", "fault"), a
\* regular file that is no .slp ("other"), a directory ("dir"), an entry the
\* walk could not read ("walk_err")
MkEntry(kind, names, winner, mtime) ==
    [ kind |-> kind, names |-> names, winner |-> winner, mtime |-> mtime ]

Dates == { None } \cup { Some(d) : d \in 1..MaxDate }

\* replays that differ in their date
DateEntries ==
    { MkEntry("ok", << "A", "B" >>, "p1", m) : m \in Dates }

\* entries that differ in how the walk and the parse treat them
FailEntries ==
    { MkEntry(k, << "A", "B" >>, "p1", None) :
        k \in { "ok", "open_fail", "decode_err", "few_players", "fault",
                "other", "dir", "walk_err" } }

\* replays that differ in who played and who won
NameEntries ==
    { MkEntry("ok", n, w, None) :
        n \in { << "A", "B" >>, << "B", "A" >> }, w \in { "p1", "p2" } }
    \cup { MkEntry("ok", << "A", "B" >>, "none", None),
           MkEntry("ok", << "Unknown", "Unknown" >>, "p2", None) }

\* a listing of at most n entries in walk order
Listings(entries, n) ==
    UNION { [ 1..k -> entries ] : k \in 0..n }

\* the i-th entry of a listing has path i
WithPath(listing) ==
    [ i \in 1..Len(listing) |->
        [ path |-> i, kind |-> listing[i].kind, names |-> listing[i].names,
          winner |-> listing[i].winner, mtime |-> listing[i].mtime ] ]

candidates(listing) ==
    { i \in 1..Len(listing) : is_candidate(listing[i]) }

\* the orders in which the workers can deliver the candidates of a listing
Orders(listing) ==
    { o \in [ 1..Cardinality(candidates(listing)) -> candidates(listing) ] :
        \A i, j \in DOMAIN o : i # j => o[i] # o[j] }

Delivered(listing, o) == [ i \in DOMAIN o |-> listing[o[i]] ]

-----------------------------------------------------------------------------
(* The standalone main() of peppi.rs: scan_directory, then get_stats_for_player *)

EmptyCache == [ tag \in {} |-> "" ]

NoStats == [ tag |-> "", wins |-> 0, losses |-> 0 ]

NoTier == [ rating |-> 0, regional |-> 0, global |-> 0, web |-> "", peppi |-> "" ]

NoFetch == [ response |-> None, outcome |-> None ]

NoParse == [ file |-> None, outcome |-> None ]

AppIdle ==
    /\ connect_code = ""
    /\ replay_dir = ""
    /\ is_scanning = FALSE
    /\ scan_status = "Ready"
    /\ is_fetching_rank = FALSE
    /\ rank_receiver = None
    /\ channel = << >>
    /\ tasks = {}
    /\ requests = [ tag \in Tags |-> 0 ]
    /\ crashed = FALSE
    /\ spawned = 0

AnalyzerNew ==
    /\ replays = << >>
    /\ rank_cache = EmptyCache
    /\ scanned = << >>
    /\ collected = << >>
    /\ scan_result = "none"
    /\ stats = NoStats

InitMain ==
    /\ AnalyzerNew
    /\ AppIdle
    /\ pc = "start"
    /\ tier = NoTier
    /\ fetch = NoFetch
    /\ parsed = NoParse

\* every listing with every order its candidates can be delivered in
Scans(listings) ==
    { [ listing |-> WithPath(raw), order |-> o ] :
        << raw, o >> \in UNION { { raw } \X Orders(WithPath(raw)) : raw \in listings } }

MainScans ==
    Scans(Listings(DateEntries, MaxFiles) \cup Listings(FailEntries, MaxFiles)
            \cup Listings(NameEntries, MaxFiles))

MainScan ==
    /\ pc = "start"
    /\ \E scan \in MainScans :
         LET r == scan_directory(replays, Delivered(scan.listing, scan.order)) IN
         /\ replays' = r.replays
         /\ scan_result' = r.result
         /\ scanned' = scan.listing
         /\ collected' = scan.order
         /\ pc' = IF r.result = "Ok" THEN "scanned" ELSE "panicked"
    /\ UNCHANGED << rank_cache, connect_code, replay_dir, is_scanning, scan_status,
                    is_fetching_rank, rank_receiver, channel, tasks, requests, crashed,
                    stats, spawned, tier, fetch, parsed >>

MainStats ==
    /\ pc = "scanned"
    /\ \E player_tag \in Tags :
         stats' = [ tag |-> player_tag,
                    wins |-> get_stats_for_player(replays, player_tag)[1],
                    losses |-> get_stats_for_player(replays, player_tag)[2] ]
    /\ pc' = "done"
    /\ UNCHANGED << replays, rank_cache, connect_code, replay_dir, is_scanning,
                    scan_status, is_fetching_rank, rank_receiver, channel, tasks,
                    requests, crashed, scanned, collected, scan_result, spawned, tier, fetch, parsed >>

NextMain == MainScan \/ MainStats

SpecMain == InitMain /\ [][NextMain]_vars

-----------------------------------------------------------------------------
(* Claims about scan_directory and get_stats_for_player, under SpecMain *)

Range(s) == { s[i] : i \in 1..Len(s) }

Paths(rs) == [ i \in 1..Len(rs) |-> rs[i].file_path ]

\* where the workers delivered the file with this path in the last scan
DeliveredAt(path) == CHOOSE k \in DOMAIN collected : collected[k] = path

ParsesOk(listing) ==
    { i \in candidates(listing) : parse_replay(listing[i]).tag = "Ok" }

\* C1: after a scan_directory call that returned, the replay list is newest
\* first: of two dated entries the later-dated one is never behind the other,
\* no dateless entry stands before a dated one, dateless entries stand in the
\* order the workers delivered them, and A(date 1), B(no date), C(date 2)
\* gives exactly [C, A, B].
C1_NewestFirst ==
    scan_result = "Ok" =>
        /\ \A i, j \in 1..Len(replays) : i < j =>
              /\ ( IsSome(replays[i].date) /\ IsSome(replays[j].date)
                     => Unwrap(replays[i].date) >= Unwrap(replays[j].date) )
              /\ ( IsSome(replays[j].date) => IsSome(replays[i].date) )
              /\ ( ~IsSome(replays[i].date) /\ ~IsSome(replays[j].date)
                     => DeliveredAt(replays[i].file_path) < DeliveredAt(replays[j].file_path) )
        /\ ( /\ Len(scanned) = 3
             /\ ParsesOk(scanned) = {1, 2, 3}
             /\ scanned[1].mtime = Some(1)
             /\ scanned[2].mtime = None
             /\ scanned[3].mtime = Some(2) )
           => Paths(replays) = << 3, 1, 2 >>

\* C1 witness: a scan of three replays, one dated and two dateless, whose
\* dateless entries were delivered against the walk order and stand so.
C1_Witness ==
    /\ scan_result = "Ok"
    /\ Len(replays) = 3
    /\ IsSome(replays[1].date)
    /\ ~IsSome(replays[2].date)
    /\ ~IsSome(replays[3].date)
    /\ replays[2].file_path > replays[3].file_path
    /\ replays[1].file_path = 1

\* C2 (as claimed): every scan_directory call returns success, and the list then
\* holds exactly one entry for each candidate that parses and none for a
\* candidate that fails, a runtime fault in the decoder included.
C2_FailuresIsolated ==
    scan_result # "none" =>
        /\ scan_result = "Ok"
        /\ Range(Paths(replays)) = ParsesOk(scanned)
        /\ Len(replays) = Cardinality(ParsesOk(scanned))

\* C3 (as claimed): the list a scan leaves is the one every delivery order of
\* the same files gives.
C3_OrderIndependent ==
    scan_result = "Ok" =>
        \A o \in Orders(scanned) :
            replays = scan_directory(<< >>, Delivered(scanned, o)).replays

Count(rs, P(_)) == Cardinality({ i \in 1..Len(rs) : P(rs[i]) })

\* C4 (as claimed): wins counts the replays where the tag is player1 and
\* player1 won or the tag is player2 and player2 won; losses those where the
\* tag is a player and the other side won.
C4_StatsEitherSide ==
    pc = "done" =>
        LET Win(r) == \/ r.player1.name = stats.tag /\ r.result = "Player1Won"
                      \/ r.player2.name = stats.tag /\ r.result = "Player2Won"
            Loss(r) == \/ r.player1.name = stats.tag /\ r.result = "Player2Won"
                       \/ r.player2.name = stats.tag /\ r.result = "Player1Won"
        IN  stats.wins = Count(replays, Win) /\ stats.losses = Count(replays, Loss)

\* The counts of the amended C4: get_stats_for_player(tag) attributes a replay by player1 when
\* the tag is player1.name, and by player2 only when the tag is player2.name
\* and not player1.name: wins counts the replays won on the attributed side,
\* losses those won by the other side, a result of Unknown adds to neither, a
\* replay with neither name is skipped, and the tag as player1-winner twice and
\* player2-loser once gives (2, 1).
C4_StatsCounts ==
    pc = "done" =>
        LET AsP1(r) == r.player1.name = stats.tag
            AsP2(r) == r.player1.name # stats.tag /\ r.player2.name = stats.tag
            Win(r) == \/ AsP1(r) /\ r.result = "Player1Won"
                      \/ AsP2(r) /\ r.result = "Player2Won"
            Loss(r) == \/ AsP1(r) /\ r.result = "Player2Won"
                       \/ AsP2(r) /\ r.result = "Player1Won"
            P1Winner(r) == AsP1(r) /\ r.result = "Player1Won"
            P2Loser(r) == AsP2(r) /\ r.result = "Player1Won"
        IN  /\ stats.wins = Count(replays, Win)
            /\ stats.losses = Count(replays, Loss)
            /\ ( Len(replays) = 3 /\ Count(replays, P1Winner) = 2
                   /\ Count(replays, P2Loser) = 1 )
               => ( stats.wins = 2 /\ stats.losses = 1 )

\* C4 (amended), with its frame part: the counts are as above, and the call
\* leaves the replay list and the rank cache as they were.
C4_StatsPlayer1First ==
    /\ []C4_StatsCounts
    /\ [][ pc' = "done" => UNCHANGED << replays, rank_cache >> ]_vars

\* C4 witness: the tag was player1-winner twice and player2-loser once.
C4_Witness ==
    /\ pc = "done"
    /\ stats.tag = "A"
    /\ Len(replays) = 3
    /\ Cardinality({ i \in 1..3 : replays[i].player1.name = "A"
                                    /\ replays[i].result = "Player1Won" }) = 2
    /\ Cardinality({ i \in 1..3 : replays[i].player2.name = "A"
                                    /\ replays[i].result = "Player1Won" }) = 1
    /\ stats.wins = 2
    /\ stats.losses = 1

-----------------------------------------------------------------------------
(* The tier tables *)

\* web.rs elo_to_rank with the Grandmaster arm requiring both placements
web_elo_to_rank_both(rating, regional_placement, global_placement) ==
    IF rating < 766 THEN "Bronze 1"
    ELSE IF rating < 914 THEN "Bronze 2"
    ELSE IF rating < 1055 THEN "Bronze 3"
    ELSE IF rating < 1189 THEN "Silver 1"
    ELSE IF rating < 1316 THEN "Silver 2"
    ELSE IF rating < 1436 THEN "Silver 3"
    ELSE IF rating < 1549 THEN "Gold 1"
    ELSE IF rating < 1654 THEN "Gold 2"
    ELSE IF rating < 1752 THEN "Gold 3"
    ELSE IF rating < 1843 THEN "Platinum 1"
    ELSE IF rating < 1928 THEN "Platinum 2"
    ELSE IF rating < 2004 THEN "Platinum 3"
    ELSE IF rating < 2074 THEN "Diamond 1"
    ELSE IF rating < 2137 THEN "Diamond 2"
    ELSE IF rating < 2192 THEN "Diamond 3"
    ELSE IF rating >= 2192 /\ (regional_placement <= 100 /\ global_placement <= 300)
         THEN "Grandmaster"
    ELSE IF rating < 2275 THEN "Master 1"
    ELSE IF rating < 2350 THEN "Master 2"
    ELSE IF rating >= 2350 THEN "Master 3"
    ELSE "Unranked"

\* web.rs elo_to_rank: the match arms in order, each guard as written
web_elo_to_rank(rating, regional_placement, global_placement) ==
    IF rating < 766 THEN "Bronze 1"
    ELSE IF rating < 914 THEN "Bronze 2"
    ELSE IF rating < 1055 THEN "Bronze 3"
    ELSE IF rating < 1189 THEN "Silver 1"
    ELSE IF rating < 1316 THEN "Silver 2"
    ELSE IF rating < 1436 THEN "Silver 3"
    ELSE IF rating < 1549 THEN "Gold 1"
    ELSE IF rating < 1654 THEN "Gold 2"
    ELSE IF rating < 1752 THEN "Gold 3"
    ELSE IF rating < 1843 THEN "Platinum 1"
    ELSE IF rating < 1928 THEN "Platinum 2"
    ELSE IF rating < 2004 THEN "Platinum 3"
    ELSE IF rating < 2074 THEN "Diamond 1"
    ELSE IF rating < 2137 THEN "Diamond 2"
    ELSE IF rating < 2192 THEN "Diamond 3"
    ELSE IF rating >= 2192 /\ (regional_placement <= 100 \/ global_placement <= 300)
         THEN "Grandmaster"
    ELSE IF rating < 2275 THEN "Master 1"
    ELSE IF rating < 2350 THEN "Master 2"
    ELSE IF rating >= 2350 THEN "Master 3"
    ELSE "Unranked"

\* peppi.rs elo_to_rank: inclusive ranges, everything else "Grandmaster"
peppi_elo_to_rank(elo) ==
    IF elo \in 0..765 THEN "Bronze 1"
    ELSE IF elo \in 766..913 THEN "Bronze 2"
    ELSE IF elo \in 914..1054 THEN "Bronze 3"
    ELSE IF elo \in 1055..1188 THEN "Silver 1"
    ELSE IF elo \in 1189..1315 THEN "Silver 2"
    ELSE IF elo \in 1316..1436 THEN "Silver 3"
    ELSE IF elo \in 1437..1546 THEN "Gold 1"
    ELSE IF elo \in 1547..1654 THEN "Gold 2"
    ELSE IF elo \in 1655..1751 THEN "Gold 3"
    ELSE IF elo \in 1752..1842 THEN "Platinum 1"
    ELSE IF elo \in 1843..1927 THEN "Platinum 2"
    ELSE IF elo \in 1928..2003 THEN "Platinum 3"
    ELSE IF elo \in 2004..2074 THEN "Diamond 1"
    ELSE IF elo \in 2075..2136 THEN "Diamond 2"
    ELSE IF elo \in 2137..2191 THEN "Diamond 3"
    ELSE IF elo \in 2192..2274 THEN "Master 1"
    ELSE IF elo \in 2275..2350 THEN "Master 2"
    ELSE IF elo \in 2351..2999 THEN "Master 3"
    ELSE "Grandmaster"

\* ratings and daily placements the tables are evaluated on; -1 is what an
\* absent placement becomes (i64::MAX as i32)
Ratings == (0 - BelowZero)..MaxRating

Placements == { -1, 50, 100, 101, 300, 301, 500 }

InitTier ==
    /\ AnalyzerNew
    /\ AppIdle
    /\ pc = "tier"
    /\ fetch = NoFetch
    /\ parsed = NoParse
    /\ \E r \in Ratings, reg \in Placements, glob \in Placements :
         tier = [ rating |-> r, regional |-> reg, global |-> glob, web |-> "", peppi |-> "" ]

Classify ==
    /\ pc = "tier"
    /\ tier.web = ""
    /\ tier' = [ tier EXCEPT
                   !.web = web_elo_to_rank(tier.rating, tier.regional, tier.global),
                   !.peppi = peppi_elo_to_rank(tier.rating) ]
    /\ UNCHANGED << replays, rank_cache, connect_code, replay_dir, is_scanning,
                    scan_status, is_fetching_rank, rank_receiver, channel, tasks,
                    requests, crashed, pc, scanned, collected, scan_result, stats, spawned,
                    fetch, parsed >>

NextTier == Classify

SpecTier == InitTier /\ [][NextTier]_vars

Qualifies(t) == t.regional <= 100 \/ t.global <= 300

\* C9: web.rs elo_to_rank returns "Grandmaster" exactly when the rating is at
\* least 2192 and the regional placement is at most 100 or the global one at
\* most 300; any other rating of at least 2192 gets the Master label its rating
\* alone decides (2200 with regional 50 is "Grandmaster", 2200 with 500 and 500
\* is "Master 1").
C9_Grandmaster ==
    tier.web # "" =>
        /\ tier.web = "Grandmaster" <=> ( tier.rating >= 2192 /\ Qualifies(tier) )
        /\ ( tier.rating >= 2192 /\ ~Qualifies(tier) ) =>
              /\ tier.web \in { "Master 1", "Master 2", "Master 3" }
              /\ tier.web = web_elo_to_rank(tier.rating, 500, 500)
        /\ ( tier.rating = 2200 /\ tier.regional = 50 ) => tier.web = "Grandmaster"
        /\ ( tier.rating = 2200 /\ tier.regional = 500 /\ tier.global = 500 )
              => tier.web = "Master 1"

\* C9 witness: rating 2200 with regional placement 50 and a global placement
\* that does not qualify was mapped to "Grandmaster".
C9_Witness ==
    /\ tier.rating = 2200
    /\ tier.regional = 50
    /\ tier.global = 500
    /\ tier.web = "Grandmaster"

\* C10 (as claimed): for every rating from 0 to 2999 whose placements do not
\* qualify for Grandmaster, web.rs elo_to_rank gives the label peppi.rs
\* elo_to_rank gives.
C10_SameBands ==
    ( tier.web # "" /\ tier.rating \in 0..2999 /\ ~Qualifies(tier) )
        => tier.web = tier.peppi

-----------------------------------------------------------------------------
(* The rank fetch: peppi.rs fetch_player_rank, which app.rs calls *)

\* the responses a fetch can meet: no response, a body that is no JSON, and
\* JSON bodies with or without data.getUser and with or without an errors list
Rated(r) ==
    [ kind |-> "json", errors |-> FALSE,
      user |-> Some([ profile |-> Some([ rating |-> Some(r) ]), display |-> Some("name") ]) ]

Responses ==
    { [ kind |-> "transport_err" ],
      [ kind |-> "bad_json" ],
      [ kind |-> "json", user |-> None, errors |-> TRUE ],
      [ kind |-> "json", user |-> None, errors |-> FALSE ],
      Rated(1500) }

\* fetch_player_rank: the `?` on send/text/from_str, then the response handling
peppi_fetch_player_rank(response) ==
    IF response.kind = "transport_err" THEN [ ok |-> FALSE, val |-> "transport" ]
    ELSE IF response.kind = "bad_json" THEN [ ok |-> FALSE, val |-> "json" ]
    ELSE IF /\ IsSome(response.user)
            /\ IsSome(Unwrap(response.user).profile)
            /\ IsSome(Unwrap(Unwrap(response.user).profile).rating)
         THEN [ ok |-> TRUE,
                val |-> peppi_elo_to_rank(Unwrap(Unwrap(Unwrap(response.user).profile).rating)) ]
    ELSE IF /\ IsSome(response.user)
            /\ IsSome(Unwrap(response.user).profile)
            /\ IsSome(Unwrap(response.user).display)
         THEN [ ok |-> TRUE, val |-> "name (Unranked Season)" ]
    ELSE IF IsSome(response.user) /\ IsSome(Unwrap(response.user).display)
         THEN [ ok |-> TRUE, val |-> "Unranked" ]
    ELSE IF response.errors THEN [ ok |-> FALSE, val |-> "errors" ]
    ELSE [ ok |-> FALSE, val |-> "not_found" ]

-----------------------------------------------------------------------------
(* ReplayAnalyzer: the rank cache and the analyzer's own lookup *)

insert(cache, key, value) ==
    [ k \in DOMAIN cache \cup { key } |-> IF k = key THEN value ELSE cache[k] ]

\* get_cached_rank that does not report the failure sentinel
get_cached_rank_skips_sentinel(cache, player_tag) ==
    IF player_tag \in DOMAIN cache /\ cache[player_tag] # "Unknown"
    THEN Some(cache[player_tag]) ELSE None

\* get_cached_rank that never finds an entry
get_cached_rank_miss(cache, player_tag) == None

get_cached_rank(cache, player_tag) ==
    IF player_tag \in DOMAIN cache THEN Some(cache[player_tag]) ELSE None

\* the other player of the most recent replay; player1 when the tag is neither
opponent_of(rs, player_tag) ==
    IF rs[1].player1.name = player_tag THEN rs[1].player2.name ELSE rs[1].player1.name

\* replays.get_mut(0): opponent_rank = Some(rank), on every replay
set_first_rank_all(rs, rank) ==
    [ i \in 1..Len(rs) |-> [ rs[i] EXCEPT !.opponent_rank = Some(rank) ] ]

\* replays.get_mut(0): opponent_rank = Some(rank)
set_first_rank(rs, rank) ==
    IF rs = << >> THEN rs ELSE [ rs EXCEPT ![1].opponent_rank = Some(rank) ]

\* ReplayAnalyzer::lookup_opponent_rank, given the response its fetch would
\* meet: the analyzer's fields afterwards and whether a request was issued
analyzer_lookup_opponent_rank(rs, cache, player_tag, response) ==
    IF rs = << >> THEN [ replays |-> rs, rank_cache |-> cache, requested |-> FALSE ]
    ELSE LET opponent_tag == opponent_of(rs, player_tag)
             fetched == peppi_fetch_player_rank(response)
         IN  IF opponent_tag \in DOMAIN cache
             THEN [ replays |-> rs, rank_cache |-> cache, requested |-> FALSE ]
             ELSE IF opponent_tag = "Unknown"
             THEN [ replays |-> rs, rank_cache |-> cache, requested |-> FALSE ]
             ELSE IF fetched.ok
             THEN [ replays |-> set_first_rank(rs, fetched.val),
                    rank_cache |-> insert(cache, opponent_tag, fetched.val),
                    requested |-> TRUE ]
             ELSE [ replays |-> rs,
                    rank_cache |-> insert(cache, opponent_tag, "Unknown"),
                    requested |-> TRUE ]

-----------------------------------------------------------------------------
(* Eppi: the handlers of app.rs *)

\* the fields of Eppi and of its ReplayAnalyzer the handlers read and write
Self ==
    [ connect_code |-> connect_code, replay_dir |-> replay_dir,
      is_scanning |-> is_scanning, scan_status |-> scan_status,
      is_fetching_rank |-> is_fetching_rank, rank_receiver |-> rank_receiver,
      replays |-> replays, rank_cache |-> rank_cache ]

\* scan_replays carrying the rank of the first replay over to the new list
\* when the same file is first again
scan_replays_keeps_rank(self, r) ==
    IF self.replay_dir # "" /\ ~self.is_scanning
    THEN     IF r.result = "Panic"
             THEN [ self |-> [ self EXCEPT !.is_scanning = TRUE,
                                            !.scan_status = "Scanning replays..." ],
                    result |-> "Panic" ]
             ELSE [ self |-> [ self EXCEPT
                                 !.replays =
                                     IF /\ r.replays # << >> /\ self.replays # << >>
                                        /\ r.replays[1].file_path = self.replays[1].file_path
                                     THEN [ r.replays EXCEPT ![1].opponent_rank =
                                                self.replays[1].opponent_rank ]
                                     ELSE r.replays,
                                 !.scan_status = "Found replays",
                                 !.is_scanning = FALSE ],
                    result |-> "Ok" ]
    ELSE [ self |-> self, result |-> "none" ]

\* Eppi::scan_replays, `r` being what replay_analyzer.scan_directory comes to
\* (it assigns the analyzer's replays itself); a panic out of scan_directory
\* unwinds through the handler with is_scanning still set
scan_replays(self, r) ==
    IF self.replay_dir # "" /\ ~self.is_scanning
    THEN     IF r.result = "Panic"
             THEN [ self |-> [ self EXCEPT !.is_scanning = TRUE,
                                            !.scan_status = "Scanning replays..." ],
                    result |-> "Panic" ]
             ELSE [ self |-> [ self EXCEPT !.replays = r.replays,
                                            !.scan_status = "Found replays",
                                            !.is_scanning = FALSE ],
                    result |-> "Ok" ]
    ELSE [ self |-> self, result |-> "none" ]

\* the guard of lookup_opponent_rank without the in-flight flag
lookup_guard_no_flag(self) ==
    self.connect_code # "" /\ self.replays # << >>

\* the guard of Eppi::lookup_opponent_rank
lookup_guard(self) ==
    self.connect_code # "" /\ ~self.is_fetching_rank /\ self.replays # << >>

\* Eppi::lookup_opponent_rank returning from the cache hit without clearing
\* the flag it set on entry
lookup_opponent_rank_hit_keeps_flag(self, chan) ==
    IF lookup_guard(self)
    THEN LET opponent_tag == opponent_of(self.replays, self.connect_code)
             cached_rank == get_cached_rank(self.rank_cache, opponent_tag)
         IN  IF IsSome(cached_rank)
             THEN [ self |-> [ self EXCEPT
                                 !.replays = set_first_rank(self.replays, Unwrap(cached_rank)),
                                 !.scan_status = "Found cached rank",
                                 !.is_fetching_rank = TRUE ],
                    spawn |-> None ]
             ELSE [ self |-> [ self EXCEPT
                                 !.is_fetching_rank = TRUE,
                                 !.rank_receiver = Some(chan),
                                 !.scan_status = "Looking up rank" ],
                    spawn |-> Some([ chan |-> chan, tag |-> opponent_tag ]) ]
    ELSE [ self |-> self, spawn |-> None ]

\* Eppi::lookup_opponent_rank; `chan` is the channel mpsc::channel() would
\* create.  spawn is the task handed to tokio::spawn, if any.
lookup_opponent_rank(self, chan) ==
    IF lookup_guard(self)
    THEN LET opponent_tag == opponent_of(self.replays, self.connect_code)
             cached_rank == get_cached_rank(self.rank_cache, opponent_tag)
         IN  IF IsSome(cached_rank)
             THEN [ self |-> [ self EXCEPT
                                 !.replays = set_first_rank(self.replays, Unwrap(cached_rank)),
                                 !.scan_status = "Found cached rank",
                                 !.is_fetching_rank = FALSE ],
                    spawn |-> None ]
             ELSE [ self |-> [ self EXCEPT
                                 !.is_fetching_rank = TRUE,
                                 !.rank_receiver = Some(chan),
                                 !.scan_status = "Looking up rank" ],
                    spawn |-> Some([ chan |-> chan, tag |-> opponent_tag ]) ]
    ELSE [ self |-> self, spawn |-> None ]

\* the spawned task's body after the fetch: the message it sends
task_message(tag, response) ==
    [ tag |-> tag,
      ok |-> peppi_fetch_player_rank(response).ok,
      val |-> peppi_fetch_player_rank(response).val ]

\* the Ok arm of update, applied only when the tag still plays in the most
\* recent replay
drain_ok_if_current(self, opponent_tag, rank) ==
    IF /\ self.replays # << >>
       /\ opponent_tag \in { self.replays[1].player1.name, self.replays[1].player2.name }
    THEN [ self EXCEPT !.rank_cache = insert(self.rank_cache, opponent_tag, rank),
                       !.replays = set_first_rank(self.replays, rank),
                       !.scan_status = "Found rank" ]
    ELSE [ self EXCEPT !.scan_status = "Found rank" ]

\* the Ok arm of update, with the rank written to every replay
drain_ok_all(self, opponent_tag, rank) ==
    [ self EXCEPT !.rank_cache = insert(self.rank_cache, opponent_tag, rank),
                  !.replays = set_first_rank_all(self.replays, rank),
                  !.scan_status = "Found rank" ]

\* the Ok arm of update
drain_ok(self, opponent_tag, rank) ==
    [ self EXCEPT !.rank_cache = insert(self.rank_cache, opponent_tag, rank),
                  !.replays = set_first_rank(self.replays, rank),
                  !.scan_status = "Found rank" ]

\* the Err arm of update, writing the sentinel on the first replay as well
drain_err_marks_replay(self, opponent_tag) ==
    [ self EXCEPT !.rank_cache = insert(self.rank_cache, opponent_tag, "Unknown"),
                  !.replays = set_first_rank(self.replays, "Unknown"),
                  !.scan_status = "Failed to lookup rank" ]

\* the Err arm of update, without the cache insert
drain_err_uncached(self, opponent_tag) ==
    [ self EXCEPT !.scan_status = "Failed to lookup rank" ]

\* the Err arm of update
drain_err(self, opponent_tag) ==
    [ self EXCEPT !.rank_cache = insert(self.rank_cache, opponent_tag, "Unknown"),
                  !.scan_status = "Failed to lookup rank" ]

\* update, when try_recv hands over a message, the receiver staying in place
update_drain_keeps_receiver(self, msg) ==
    [ ( IF msg.ok THEN drain_ok(self, msg.tag, msg.val) ELSE drain_err(self, msg.tag) )
        EXCEPT !.is_fetching_rank = FALSE ]

\* update, when try_recv hands over a message
update_drain(self, msg) ==
    [ ( IF msg.ok THEN drain_ok(self, msg.tag, msg.val) ELSE drain_err(self, msg.tag) )
        EXCEPT !.is_fetching_rank = FALSE, !.rank_receiver = None ]

\* the rank part of update: `chan` is what the channel of rank_receiver holds;
\* try_recv returns at once, with Err when it is empty or disconnected
update(self, chan) ==
    IF IsSome(self.rank_receiver) /\ chan # << >>
    THEN update_drain(self, Head(chan))
    ELSE self

Codes == { "", "A" }

Dirs == { "", "replays" }

\* replays the UI session scans: any of them is the most recent one of some
\* directory
AppEntries ==
    { MkEntry("ok", << "B", "A" >>, "p1", Some(2)),
      MkEntry("ok", << "A", "Unknown" >>, "p1", Some(1)),
      MkEntry("ok", << "B", "Unknown" >>, "none", None),
      MkEntry("fault", << "A", "B" >>, "p1", None) }

AppScans == Scans(Listings(AppEntries, MaxAppFiles))

\* what scan_directory can come to on those directories
AppOutcomes ==
    { scan_directory(<< >>, Delivered(scan.listing, scan.order)) : scan \in AppScans }

Assign(self) ==
    /\ connect_code' = self.connect_code
    /\ replay_dir' = self.replay_dir
    /\ is_scanning' = self.is_scanning
    /\ scan_status' = self.scan_status
    /\ is_fetching_rank' = self.is_fetching_rank
    /\ rank_receiver' = self.rank_receiver
    /\ replays' = self.replays
    /\ rank_cache' = self.rank_cache

Running == pc = "app" /\ ~crashed

Init ==
    /\ AnalyzerNew
    /\ AppIdle
    /\ pc = "app"
    /\ tier = NoTier
    /\ fetch = NoFetch
    /\ parsed = NoParse

\* text_edit_singleline(&mut self.connect_code)
EditConnectCode ==
    /\ Running
    /\ \E code \in Codes \ { connect_code } : connect_code' = code
    /\ UNCHANGED << replays, rank_cache, replay_dir, is_scanning, scan_status,
                    is_fetching_rank, rank_receiver, channel, tasks, requests, crashed,
                    pc, scanned, collected, scan_result, stats, spawned, tier, fetch, parsed >>

\* text_edit_singleline(&mut self.replay_dir), or the folder dialog
EditReplayDir ==
    /\ Running
    /\ \E dir \in Dirs \ { replay_dir } : replay_dir' = dir
    /\ UNCHANGED << replays, rank_cache, connect_code, is_scanning, scan_status,
                    is_fetching_rank, rank_receiver, channel, tasks, requests, crashed,
                    pc, scanned, collected, scan_result, stats, spawned, tier, fetch, parsed >>

ScanEnabled == ~is_scanning /\ replay_dir # ""

\* the "Scan Replays" button
ClickScan ==
    /\ Running
    /\ ScanEnabled
    /\ \E outcome \in AppOutcomes :
         LET r == scan_replays(Self, outcome) IN
         /\ Assign(r.self)
         /\ scan_result' = r.result
         /\ crashed' = (r.result = "Panic")
    /\ UNCHANGED << channel, tasks, requests, pc, scanned, collected, stats, spawned,
                    tier, fetch, parsed >>

LookupEnabled == ~is_fetching_rank /\ connect_code # "" /\ replays # << >>

\* the "Lookup Opponent Rank" button
ClickLookup ==
    /\ Running
    /\ LookupEnabled
    /\ spawned < MaxSpawn
    /\ LET r == lookup_opponent_rank(Self, spawned + 1) IN
         /\ Assign(r.self)
         /\ tasks' = IF IsSome(r.spawn) THEN tasks \cup { Unwrap(r.spawn) } ELSE tasks
         /\ spawned' = IF IsSome(r.spawn) THEN spawned + 1 ELSE spawned
         /\ channel' = IF IsSome(r.spawn) THEN << >> ELSE channel
    /\ UNCHANGED << requests, crashed, pc, scanned, collected, scan_result, stats, tier, fetch, parsed >>

\* a spawned task runs: one request, then the result is sent (the send fails
\* when the receiver it was created with is gone)
TaskRun ==
    /\ Running
    /\ \E t \in tasks, response \in Responses :
         /\ requests' = [ requests EXCEPT ![t.tag] = @ + 1 ]
         /\ channel' = IF rank_receiver = Some(t.chan)
                       THEN Append(channel, task_message(t.tag, response))
                       ELSE channel
         /\ tasks' = tasks \ { t }
    /\ UNCHANGED << replays, rank_cache, connect_code, replay_dir, is_scanning,
                    scan_status, is_fetching_rank, rank_receiver, crashed, pc, scanned,
                    collected, scan_result, stats, spawned, tier, fetch, parsed >>

\* a spawned task ends without sending (it panicked, or the runtime dropped
\* it): the sender is dropped, before or after the request went out
TaskAbort ==
    /\ Running
    /\ \E t \in tasks, sent \in BOOLEAN :
         /\ requests' = IF sent THEN [ requests EXCEPT ![t.tag] = @ + 1 ] ELSE requests
         /\ tasks' = tasks \ { t }
    /\ UNCHANGED << replays, rank_cache, connect_code, replay_dir, is_scanning,
                    scan_status, is_fetching_rank, rank_receiver, channel, crashed, pc,
                    scanned, collected, scan_result, stats, spawned, tier, fetch, parsed >>

\* update: try_recv on the receiver hands over a message
Drain ==
    /\ Running
    /\ IsSome(rank_receiver)
    /\ channel # << >>
    /\ Assign(update_drain(Self, Head(channel)))
    /\ channel' = << >>
    /\ UNCHANGED << tasks, requests, crashed, pc, scanned, collected, scan_result,
                    stats, spawned, tier, fetch, parsed >>

\* update: there is no receiver, or try_recv on it hands over nothing
PollMiss ==
    /\ Running
    /\ ~( IsSome(rank_receiver) /\ channel # << >> )
    /\ Assign(update(Self, channel))
    /\ UNCHANGED << channel, tasks, requests, crashed, pc, scanned, collected,
                    scan_result, stats, spawned, tier, fetch, parsed >>

Next ==
    \/ EditConnectCode
    \/ EditReplayDir
    \/ ClickScan
    \/ ClickLookup
    \/ TaskRun
    \/ TaskAbort
    \/ Drain
    \/ PollMiss

Spec == Init /\ [][Next]_vars

\* the runtime runs every spawned task until it ends, and the UI keeps
\* repainting (the task asks for a repaint when it has sent)
SpecFair ==
    /\ Spec
    /\ WF_vars(TaskRun \/ TaskAbort)
    /\ WF_vars(Drain)

-----------------------------------------------------------------------------
(* The rank cache and the in-flight guards *)

\* the opponent a lookup made now would be about
Opponent == opponent_of(replays, connect_code)

\* what the "Lookup Opponent Rank" handler would do now
LookupNow == lookup_opponent_rank(Self, spawned + 1)

Failures == { response \in Responses : ~peppi_fetch_player_rank(response).ok }

\* a lookup whose opponent is cached: Eppi's handler spawns nothing, creates
\* no channel, writes the cached value on the most recent replay and leaves
\* the flag clear; the analyzer's own lookup issues no request either
C5_HitState ==
    /\ ( lookup_guard(Self) /\ Opponent \in DOMAIN rank_cache ) =>
          /\ LookupNow.spawn = None
          /\ LookupNow.self.rank_receiver = rank_receiver
          /\ LookupNow.self.is_fetching_rank = FALSE
          /\ LookupNow.self.rank_cache = rank_cache
          /\ LookupNow.self.replays[1].opponent_rank = Some(rank_cache[Opponent])
    /\ ( replays # << >> /\ Opponent \in DOMAIN rank_cache ) =>
          \A response \in Responses :
             LET r == analyzer_lookup_opponent_rank(replays, rank_cache, connect_code,
                                                    response)
             IN  /\ ~r.requested
                 /\ r.rank_cache = rank_cache
                 /\ get_cached_rank(r.rank_cache, Opponent) = Some(rank_cache[Opponent])

\* tasks are spawned only for uncached tags, and requests come only from tasks
C5_HitStep ==
    /\ \A t \in tasks' \ tasks : t.tag \notin DOMAIN rank_cache
    /\ \A y \in Tags : requests'[y] # requests[y] => \E t \in tasks : t.tag = y

\* C5: a lookup whose opponent tag is in rank_cache (a rank or the sentinel)
\* issues no request and spawns no task; the cached value is delivered within
\* the call and the in-flight flag is clear when the call returns.
C5_CacheHit == []C5_HitState /\ [][C5_HitStep]_vars

\* a lookup was answered from the cache, with a real rank, and no task exists
C5_Witness ==
    /\ scan_status = "Found cached rank"
    /\ replays # << >>
    /\ Opponent \in DOMAIN rank_cache
    /\ rank_cache[Opponent] # "Unknown"
    /\ replays[1].opponent_rank = Some(rank_cache[Opponent])
    /\ requests[Opponent] = 1
    /\ tasks = { }
    /\ ~is_fetching_rank

\* a failed fetch for y is known: its result waits in the channel, or the
\* sentinel is cached
Failed(y) ==
    \/ \E i \in 1..Len(channel) : channel[i].tag = y /\ ~channel[i].ok
    \/ ( y \in DOMAIN rank_cache /\ rank_cache[y] = "Unknown" )

\* the analyzer's own lookup: a failing fetch caches the sentinel, and the
\* lookup repeated on what it left issues no request
C6_AnalyzerState ==
    ( replays # << >> /\ Opponent \notin DOMAIN rank_cache /\ Opponent # "Unknown" ) =>
        \A response \in Failures :
           LET r == analyzer_lookup_opponent_rank(replays, rank_cache, connect_code,
                                                  response)
           IN  /\ r.requested
               /\ get_cached_rank(r.rank_cache, Opponent) = Some("Unknown")
               /\ \A again \in Responses :
                     ~analyzer_lookup_opponent_rank(r.replays, r.rank_cache,
                                                    connect_code, again).requested

C6_FailedStep ==
    \A y \in Tags :
       \* draining a failure caches the sentinel
       /\ ( /\ channel # << >>
            /\ Head(channel).tag = y
            /\ ~Head(channel).ok
            /\ channel' = << >> ) =>
               ( y \in DOMAIN rank_cache' /\ rank_cache'[y] = "Unknown" )
       \* the sentinel stays, and a known failure brings no task and no request
       /\ Failed(y) =>
            /\ Failed(y)'
            /\ requests'[y] = requests[y]
            /\ \A t \in tasks' : t.tag # y

\* C6: once a fetch for tag Y has failed (no response, no JSON, an errors
\* list, no such user), draining its result caches "Unknown" under Y, the
\* sentinel stays, and no later lookup for Y issues a request.
C6_NegativeCache ==
    /\ [](C6_AnalyzerState /\ \A y \in Tags : Failed(y) => \A t \in tasks : t.tag # y)
    /\ [][C6_FailedStep]_vars

\* a later lookup for a tag whose fetch failed was answered with the sentinel,
\* the tag having been requested once
C6_Witness ==
    /\ scan_status = "Found cached rank"
    /\ replays # << >>
    /\ Opponent \in DOMAIN rank_cache
    /\ rank_cache[Opponent] = "Unknown"
    /\ replays[1].opponent_rank = Some("Unknown")
    /\ requests[Opponent] = 1
    /\ tasks = { }

C7_HistoryState ==
    /\ \A i \in 2..Len(replays) : replays[i].opponent_rank = None
    /\ ( replays # << >> /\ Opponent \notin DOMAIN rank_cache /\ Opponent # "Unknown" ) =>
          \A response \in Responses \ Failures :
             LET r == analyzer_lookup_opponent_rank(replays, rank_cache, connect_code,
                                                    response)
                 rank == peppi_fetch_player_rank(response).val
             IN  /\ get_cached_rank(r.rank_cache, Opponent) = Some(rank)
                 /\ r.replays[1].opponent_rank = Some(rank)
                 /\ \A i \in 2..Len(replays) : r.replays[i] = replays[i]

\* draining a success caches the rank under the tag the task was spawned for
\* and writes it on the first replay, the others staying as they were
C7_SuccessStep ==
    ( /\ channel # << >>
      /\ Head(channel).ok
      /\ channel' = << >> ) =>
         /\ Head(channel).tag \in DOMAIN rank_cache'
         /\ rank_cache'[Head(channel).tag] = Head(channel).val
         /\ Len(replays') = Len(replays)
         /\ replays # << >> => replays'[1].opponent_rank = Some(Head(channel).val)
         /\ \A i \in 2..Len(replays) : replays'[i] = replays[i]

\* C7: in every reachable state every replay after the first has no
\* opponent_rank; a successful fetch updates rank_cache for the opponent tag
\* and sets opponent_rank on the first replay only.
C7_FirstReplayOnly == []C7_HistoryState /\ [][C7_SuccessStep]_vars

\* a fetched rank sits on the first of several replays
C7_Witness ==
    /\ Len(replays) >= 2
    /\ scan_status = "Found rank"
    /\ replays[1].opponent_rank # None
    /\ replays[1].opponent_rank # Some("Unknown")

\* C8: at most one rank-fetch task and at most one scan are outstanding; while
\* a fetch is pending the lookup handler spawns nothing, replaces no channel
\* and changes nothing, and while a scan is pending the scan handler changes
\* nothing.
C8_OneOutstanding ==
    /\ Cardinality(tasks) <= 1
    /\ \A t \in tasks : is_fetching_rank /\ rank_receiver = Some(t.chan)
    /\ IsSome(rank_receiver) => is_fetching_rank
    /\ is_fetching_rank =>
          \A code \in Codes :
             LET self == [ Self EXCEPT !.connect_code = code ]
             IN  lookup_opponent_rank(self, spawned + 1) = [ self |-> self, spawn |-> None ]
    /\ is_scanning =>
          \A outcome \in AppOutcomes :
             scan_replays(Self, outcome) = [ self |-> Self, result |-> "none" ]

\* a fetch is pending while the lookup's other conditions hold
C8_Witness ==
    /\ is_fetching_rank
    /\ tasks # { }
    /\ connect_code # ""
    /\ replays # << >>
    /\ Opponent \notin DOMAIN rank_cache

-----------------------------------------------------------------------------
(* web.rs fetch_player_rank on a response body (serde_json::Value) *)

\* serde_json::Value: null, a number, a string, an array, or an object whose
\* fields is a function from the keys it has to their values
JNull == [ t |-> "null" ]

JNum(n) == [ t |-> "num", num |-> n ]

JStr(str) == [ t |-> "str", str |-> str ]

JArr(items) == [ t |-> "arr", items |-> items ]

JObj(fields) == [ t |-> "obj", fields |-> fields ]

NoFields == [ k \in {} |-> JNull ]

\* Value::get(key): Some(value) when the value is an object that has the key,
\* a key holding null included
get(value, key) ==
    IF value.t = "obj" /\ key \in DOMAIN value.fields
    THEN Some(value.fields[key]) ELSE None

as_f64(value) == IF value.t = "num" THEN Some(value.num) ELSE None

as_i64(value) == IF value.t = "num" THEN Some(value.num) ELSE None

as_str(value) == IF value.t = "str" THEN Some(value.str) ELSE None

\* i64::MAX in 16-bit limbs, the most significant first
I64Max == << 32767, 65535, 65535, 65535 >>

\* `as i32` on an i64: the low 32 bits, read as two's complement
as_i32(limbs) ==
    ( IF limbs[3] >= 32768 THEN limbs[3] - 65536 ELSE limbs[3] ) * 65536 + limbs[4]

\* i64::MAX as i32: the cast keeps the low 32 bits, all ones
I64MaxAsI32 == as_i32(I64Max)

\* .get(key).and_then(|p| p.as_i64()).unwrap_or(i64::MAX) as i32
placement(ranked_profile, key) ==
    IF IsSome(get(ranked_profile, key)) /\ IsSome(as_i64(Unwrap(get(ranked_profile, key))))
    THEN Unwrap(as_i64(Unwrap(get(ranked_profile, key))))
    ELSE I64MaxAsI32

\* .get("displayName").and_then(|n| n.as_str())
display_name(user_data) ==
    IF IsSome(get(user_data, "displayName"))
    THEN as_str(Unwrap(get(user_data, "displayName")))
    ELSE None

\* .get("ratingOrdinal").and_then(|r| r.as_f64())
rating_ordinal(ranked_profile) ==
    IF IsSome(get(ranked_profile, "ratingOrdinal"))
    THEN as_f64(Unwrap(get(ranked_profile, "ratingOrdinal")))
    ELSE None

\* json_response.get("data").and_then(|d| d.get("getUser"))
get_user(json_response) ==
    IF IsSome(get(json_response, "data"))
    THEN get(Unwrap(get(json_response, "data")), "getUser")
    ELSE None

\* the two checks that follow the user data: the errors key, then not found
web_fetch_no_user(json_response) ==
    IF IsSome(get(json_response, "errors"))
    THEN [ ok |-> FALSE, kind |-> "errors", val |-> Unwrap(get(json_response, "errors")) ]
    ELSE [ ok |-> FALSE, kind |-> "not_found", val |-> JNull ]

\* the check for a display name after the ranked profile gave nothing
web_fetch_no_profile(json_response, user_data) ==
    IF IsSome(display_name(user_data))
    THEN [ ok |-> TRUE, kind |-> "unranked", val |-> "Unranked" ]
    ELSE web_fetch_no_user(json_response)

\* web.rs fetch_player_rank: the `?` on send/text/from_str, then the response
web_fetch_player_rank(response) ==
    IF response.kind = "transport_err"
    THEN [ ok |-> FALSE, kind |-> "transport", val |-> JNull ]
    ELSE IF response.kind = "bad_json"
    THEN [ ok |-> FALSE, kind |-> "json", val |-> JNull ]
    ELSE LET json_response == response.body
             user == get_user(json_response)
         IN  IF ~IsSome(user) THEN web_fetch_no_user(json_response)
             ELSE LET user_data == Unwrap(user)
                      profile == get(user_data, "rankedNetplayProfile")
                  IN  IF ~IsSome(profile)
                      THEN web_fetch_no_profile(json_response, user_data)
                      ELSE LET ranked_profile == Unwrap(profile) IN
                           IF IsSome(rating_ordinal(ranked_profile))
                           THEN [ ok |-> TRUE, kind |-> "tier",
                                  val |-> web_elo_to_rank(
                                      Unwrap(rating_ordinal(ranked_profile)),
                                      placement(ranked_profile, "dailyRegionalPlacement"),
                                      placement(ranked_profile, "dailyGlobalPlacement")) ]
                           ELSE IF IsSome(display_name(user_data))
                           THEN [ ok |-> TRUE, kind |-> "unranked_season",
                                  val |-> << Unwrap(display_name(user_data)),
                                             " (Unranked Season)" >> ]
                           ELSE web_fetch_no_profile(json_response, user_data)

\* an object with any of the keys, each holding any of its values
Objects(values) ==
    { JObj(f) : f \in UNION { [ ks -> UNION { values[k] : k \in ks } ] :
                                ks \in SUBSET DOMAIN values } }

\* an object with any of these keys, each holding one of the values listed for it
ObjectsOf(values) ==
    { o \in Objects(values) : \A k \in DOMAIN o.fields : o.fields[k] \in values[k] }

FetchRatings == { 1500, 2192 }

Profiles ==
    ObjectsOf([ k \in { "ratingOrdinal", "dailyRegionalPlacement", "dailyGlobalPlacement" } |->
                  IF k = "ratingOrdinal"
                  THEN { JNull, JStr("x") } \cup { JNum(r) : r \in FetchRatings }
                  ELSE { JNull, JNum(50), JNum(500) } ])

Users ==
    ObjectsOf([ k \in { "displayName", "rankedNetplayProfile" } |->
                  IF k = "displayName" THEN { JNull, JStr("name") }
                  ELSE { JNull } \cup Profiles ])

Bodies ==
    ObjectsOf([ k \in { "data", "errors" } |->
                  IF k = "errors" THEN { JNull, JArr(<< "not found" >>) }
                  ELSE { JNull } \cup ObjectsOf([ g \in { "getUser" } |-> { JNull } \cup Users ]) ])

WebResponses ==
    { [ kind |-> "transport_err" ], [ kind |-> "bad_json" ] }
        \cup { [ kind |-> "json", body |-> b ] : b \in Bodies }

InitFetch ==
    /\ AnalyzerNew
    /\ AppIdle
    /\ pc = "fetch"
    /\ tier = NoTier
    /\ parsed = NoParse
    /\ \E response \in WebResponses : fetch = [ response |-> Some(response), outcome |-> None ]

WebFetch ==
    /\ pc = "fetch"
    /\ fetch.outcome = None
    /\ fetch' = [ fetch EXCEPT !.outcome = Some(web_fetch_player_rank(Unwrap(fetch.response))) ]
    /\ UNCHANGED << replays, rank_cache, connect_code, replay_dir, is_scanning,
                    scan_status, is_fetching_rank, rank_receiver, channel, tasks,
                    requests, crashed, pc, scanned, collected, scan_result, stats, spawned,
                    tier, parsed >>

NextFetch == WebFetch

SpecFetch == InitFetch /\ [][NextFetch]_vars

\* what a response body holds: a user, a ranked profile of that user (an
\* object, not null), a numeric rating in it, a display name, an errors list
HasUser(body) == IsSome(get_user(body)) /\ Unwrap(get_user(body)).t = "obj"

HasProfile(body) ==
    /\ HasUser(body)
    /\ IsSome(get(Unwrap(get_user(body)), "rankedNetplayProfile"))
    /\ Unwrap(get(Unwrap(get_user(body)), "rankedNetplayProfile")).t = "obj"

ProfileOf(body) == Unwrap(get(Unwrap(get_user(body)), "rankedNetplayProfile"))

HasRating(body) == HasProfile(body) /\ IsSome(rating_ordinal(ProfileOf(body)))

HasName(body) == HasUser(body) /\ IsSome(display_name(Unwrap(get_user(body))))

HasErrors(body) == IsSome(get(body, "errors")) /\ Unwrap(get(body, "errors")).t = "arr"

\* C11 (as claimed): a parsed response has exactly one outcome, by priority:
\* a numeric rating in the ranked profile gives the tier label; a ranked
\* profile without one gives "<displayName> (Unranked Season)"; no ranked
\* profile but a display name gives "Unranked"; otherwise an errors list gives
\* a failure with the server's errors; otherwise a not-found failure.
C11_Priority ==
    ( fetch.outcome # None /\ Unwrap(fetch.response).kind = "json" ) =>
        LET body == Unwrap(fetch.response).body
            out == Unwrap(fetch.outcome)
        IN  IF HasRating(body)
            THEN /\ out.kind = "tier"
                 /\ out.val = web_elo_to_rank(
                                 Unwrap(rating_ordinal(ProfileOf(body))),
                                 placement(ProfileOf(body), "dailyRegionalPlacement"),
                                 placement(ProfileOf(body), "dailyGlobalPlacement"))
            ELSE IF HasProfile(body) /\ HasName(body)
            THEN /\ out.kind = "unranked_season"
                 /\ out.val = << Unwrap(display_name(Unwrap(get_user(body)))),
                                 " (Unranked Season)" >>
            ELSE IF HasName(body)
            THEN out.kind = "unranked"
            ELSE IF HasErrors(body)
            THEN out.kind = "errors" /\ out.val = Unwrap(get(body, "errors"))
            ELSE IF IsSome(get(body, "errors"))
            THEN out.kind \in { "errors", "not_found" }
            ELSE out.kind = "not_found"

-----------------------------------------------------------------------------
(* The opponent a lookup resolves *)

\* the connect code is neither name of the most recent replay
MatchesNeither ==
    /\ replays[1].player1.name # connect_code
    /\ replays[1].player2.name # connect_code

\* C12 (as claimed): a lookup resolves the opponent as player2 of the first
\* replay when the connect code is player1.name and as player1 when it is
\* player2.name; when the code is neither name, the lookup does nothing: no
\* cache value applied, nothing spawned, no state changed.
C12_OtherPlayer ==
    /\ lookup_guard(Self) =>
          /\ replays[1].player1.name = connect_code
                => Opponent = replays[1].player2.name
          /\ ( replays[1].player2.name = connect_code
                 /\ replays[1].player1.name # connect_code )
                => Opponent = replays[1].player1.name
          /\ ( IsSome(LookupNow.spawn) => Unwrap(LookupNow.spawn).tag = Opponent )
          /\ MatchesNeither => LookupNow = [ self |-> Self, spawn |-> None ]
    /\ ( replays # << >> /\ connect_code # "" /\ MatchesNeither ) =>
          \A response \in Responses :
             LET r == analyzer_lookup_opponent_rank(replays, rank_cache, connect_code,
                                                    response)
             IN  ~r.requested /\ r.replays = replays /\ r.rank_cache = rank_cache

-----------------------------------------------------------------------------
(* scan_directory called twice on a directory that does not change *)

\* the persisted set of paths known to fail: scan_directory reads none before
\* the walk and writes none after the sort, the walk filters on is_file and
\* the extension alone
bad_file_cache == { }

RescanListings ==
    { WithPath(raw) :
        raw \in Listings(DateEntries, MaxFiles) \cup Listings(FailEntries, MaxFiles) }

InitRescan ==
    /\ AppIdle
    /\ replays = << >>
    /\ rank_cache = EmptyCache
    /\ scanned \in RescanListings
    /\ collected = << >>
    /\ scan_result = "none"
    /\ stats = NoStats
    /\ pc = "dir"
    /\ tier = NoTier
    /\ fetch = NoFetch
    /\ parsed = NoParse

\* analyzer.scan_directory(dir), the workers delivering in any order
FirstScan ==
    /\ pc = "dir"
    /\ \E o \in Orders(scanned) :
         LET r == scan_directory(replays, Delivered(scanned, o)) IN
         /\ replays' = r.replays
         /\ scan_result' = r.result
         /\ collected' = o
         /\ pc' = IF r.result = "Ok" THEN "once" ELSE "panicked"
    /\ UNCHANGED << rank_cache, connect_code, replay_dir, is_scanning, scan_status,
                    is_fetching_rank, rank_receiver, channel, tasks, requests, crashed,
                    scanned, stats, spawned, tier, fetch, parsed >>

\* analyzer.scan_directory(dir) again, the directory as it was
SecondScan ==
    /\ pc = "once"
    /\ \E o \in Orders(scanned) :
         LET r == scan_directory(replays, Delivered(scanned, o)) IN
         /\ replays' = r.replays
         /\ scan_result' = r.result
         /\ collected' = o
         /\ pc' = IF r.result = "Ok" THEN "twice" ELSE "panicked"
    /\ UNCHANGED << rank_cache, connect_code, replay_dir, is_scanning, scan_status,
                    is_fetching_rank, rank_receiver, channel, tasks, requests, crashed,
                    scanned, stats, spawned, tier, fetch, parsed >>

NextRescan == FirstScan \/ SecondScan

SpecRescan == InitRescan /\ [][NextRescan]_vars

\* the candidates of a listing whose parse fails
ParseFails(listing) ==
    { i \in candidates(listing) : parse_replay(listing[i]).tag # "Ok" }

\* C13 (as claimed): the second of two scans of an unchanged directory leaves
\* the replay list, order included, as the first left it, and the size of the
\* bad-file cache as it was.
C13_Idempotent ==
    [][ ( pc = "once" /\ pc' # "once" ) =>
          /\ pc' = "twice"
          /\ replays' = replays
          /\ Cardinality(bad_file_cache') = Cardinality(bad_file_cache) ]_vars

\* C14 (as claimed): a path whose parse failed during a scan is in the bad-file
\* set from the moment the scan returns, and a later scan does not take it as
\* a candidate or parse it.
C14_BadFilesKept ==
    /\ pc \in { "once", "twice" } => ParseFails(scanned) \subseteq bad_file_cache
    /\ pc = "twice" => ParseFails(scanned) \cap Range(collected) = { }

-----------------------------------------------------------------------------
(* scan_directory on a root that does not exist *)

\* WalkDir on a root that does not exist yields one item, the error for the
\* root itself (a root that exists yields its own entry first)
MissingRoot(listing) == Len(listing) = 1 /\ listing[1].kind = "walk_err"

\* C15 (as claimed): scan_directory on a root that does not exist returns an
\* error, not success with an empty replay list.
C15_MissingRootIsError ==
    ( scan_result # "none" /\ MissingRoot(scanned) ) => scan_result \notin { "Ok", "Panic" }

-----------------------------------------------------------------------------
(* parse_replay on decoded games of any shape *)

Ports == 1..4

\* game.end: absent, without a placement list, or with one of some entries
EndPlayers ==
    UNION { [ 1..k -> [ port : Ports, placement : { 0, 1 } ] ] : k \in 0..MaxEndPlayers }

Ends ==
    { None, Some([ players |-> None ]) } \cup { Some([ players |-> Some(ps) ]) : ps \in EndPlayers }

\* game.start.players: the ports in use, in port order
StartPlayers ==
    { ps \in UNION { [ 1..k -> Ports ] : k \in 0..MaxStartPlayers } :
        \A i, j \in DOMAIN ps : i < j => ps[i] < ps[j] }

\* game.metadata: absent, without players, or with the codes of players 0 and 1
Metadatas ==
    { None, Some([ players |-> None ]) }
        \cup { Some([ players |-> Some(<< names_code(a), names_code(b) >>) ]) :
                 << a, b >> \in { << "A", "B" >>, << "A", "Unknown" >> } }

Games ==
    [ metadata : Metadatas, start_players : StartPlayers, end : Ends, frames : { << Some(1) >> } ]

\* frames.id: one entry per frame, null allowed; the first frame of a game
\* has index -123
FrameIds == { -123, 7 }

FrameStreams ==
    UNION { [ 1..k -> { None } \cup { Some(id) : id \in FrameIds } ] : k \in 0..MaxFrames }

\* a two-player game with any frame-index stream
FrameGames ==
    [ metadata : { Some([ players |-> Some(<< Some("A"), Some("B") >>) ]) },
      start_players : { << 1, 2 >> },
      end : { None },
      frames : FrameStreams ]

GameFiles ==
    { [ path |-> 1, kind |-> "game", game |-> g, mtime |-> None ] :
        g \in Games \cup FrameGames }

InitParse ==
    /\ AnalyzerNew
    /\ AppIdle
    /\ pc = "parse"
    /\ tier = NoTier
    /\ fetch = NoFetch
    /\ \E file \in GameFiles : parsed = [ file |-> Some(file), outcome |-> None ]

Parse ==
    /\ pc = "parse"
    /\ parsed.outcome = None
    /\ parsed' = [ parsed EXCEPT !.outcome = Some(parse_replay(Unwrap(parsed.file))) ]
    /\ UNCHANGED << replays, rank_cache, connect_code, replay_dir, is_scanning,
                    scan_status, is_fetching_rank, rank_receiver, channel, tasks,
                    requests, crashed, pc, scanned, collected, scan_result, stats, spawned,
                    tier, fetch >>

NextParse == Parse

SpecParse == InitParse /\ [][NextParse]_vars

\* the game parse_replay was last called on, and the entries of its placement
\* list that have placement 0
ParsedGame == Unwrap(parsed.file).game

Placed(game) ==
    IF IsSome(game.end) /\ IsSome(Unwrap(game.end).players)
    THEN Unwrap(Unwrap(game.end).players) ELSE << >>

Winners(game) == { i \in 1..Len(Placed(game)) : Placed(game)[i].placement = 0 }

FirstWinner(game) == CHOOSE i \in Winners(game) : \A j \in Winners(game) : i <= j

\* C16: the result is decided by the first end-of-game entry with placement
\* 0, Player1Won for ports 1 and 3, Player2Won for ports 2 and 4; it is Unknown
\* when the end data or its placement list is absent or no entry has
\* placement 0; and the result never makes the parse fail.
C16_FirstZeroPlacement ==
    parsed.outcome # None =>
        LET out == Unwrap(parsed.outcome) IN
        /\ out.tag = "Err" => Len(ParsedGame.start_players) < 2
        /\ out.tag = "Ok" =>
              IF Winners(ParsedGame) = { } THEN out.info.result = "Unknown"
              ELSE IF Placed(ParsedGame)[FirstWinner(ParsedGame)].port \in { 1, 3 }
              THEN out.info.result = "Player1Won"
              ELSE out.info.result = "Player2Won"

\* a parse decided by the first of two entries with placement 0, on port 3,
\* the second being on an even port
C16_Witness ==
    /\ parsed.outcome # None
    /\ Unwrap(parsed.outcome).tag = "Ok"
    /\ Winners(ParsedGame) = { 1, 2 }
    /\ Placed(ParsedGame)[1].port = 3
    /\ Placed(ParsedGame)[2].port = 2
    /\ Unwrap(parsed.outcome).info.result = "Player1Won"

\* C17: with fewer than 2 start entries the parse fails with the error for
\* not enough players and gives no ReplayInfo; with 2 or more, player1 and
\* player2 are the first and the second start entry.
C17_TwoPlayers ==
    parsed.outcome # None =>
        LET out == Unwrap(parsed.outcome)
            start == ParsedGame.start_players
        IN  IF Len(start) < 2
            THEN /\ out.tag = "Err"
                 /\ out.error = "Not enough players found in replay"
                 /\ "info" \notin DOMAIN out
            ELSE /\ out.tag = "Ok"
                 /\ out.info.player1 = [ name |-> player_names(ParsedGame)[1], port |-> start[1] ]
                 /\ out.info.player2 = [ name |-> player_names(ParsedGame)[2], port |-> start[2] ]

\* a parse of a game with exactly two start entries
C17_Witness ==
    /\ parsed.outcome # None
    /\ Len(ParsedGame.start_players) = 2
    /\ Unwrap(parsed.outcome).tag = "Ok"
    /\ Unwrap(parsed.outcome).info.player2.port = 4

-----------------------------------------------------------------------------
(* Draining the rank channel *)

\* the messages a task can send for a tag
Messages(tag) == { task_message(tag, response) : response \in Responses }

\* a step in which update took a message off the channel
Drained == IsSome(rank_receiver) /\ channel # << >> /\ channel' = << >>

\* whatever failure update is handed in whatever state, it inserts the
\* sentinel, sets the status, clears the flag and the receiver, and leaves
\* every other field, the replays among them, as it was
C18_FailureState ==
    \A tag \in Tags : \A msg \in Messages(tag) :
       ~msg.ok =>
          update_drain(Self, msg) =
             [ Self EXCEPT !.rank_cache = insert(rank_cache, tag, "Unknown"),
                           !.scan_status = "Failed to lookup rank",
                           !.is_fetching_rank = FALSE,
                           !.rank_receiver = None ]

C18_FailureStep ==
    ( Drained /\ ~Head(channel).ok ) =>
        /\ replays' = replays
        /\ rank_cache' = insert(rank_cache, Head(channel).tag, "Unknown")
        /\ scan_status' = "Failed to lookup rank"
        /\ ~is_fetching_rank' /\ rank_receiver' = None
        /\ UNCHANGED << connect_code, replay_dir, is_scanning, tasks, requests, crashed >>

\* C18: draining a failed fetch leaves opponent_rank of every replay and the
\* replay list as they were; it changes only rank_cache (the sentinel), the
\* status message, the in-flight flag and the receiver.
C18_FailureFrame == []C18_FailureState /\ [][C18_FailureStep]_vars

\* a failure was drained with replays loaded
C18_Witness ==
    /\ scan_status = "Failed to lookup rank"
    /\ replays # << >>
    /\ replays[1].opponent_rank = None
    /\ \E tag \in DOMAIN rank_cache : rank_cache[tag] = "Unknown"
    /\ ~is_fetching_rank
    /\ rank_receiver = None

\* a poll that finds nothing changes nothing, the flag and the receiver
\* included; at most one result waits, and only on the receiver's channel
C19_PollState ==
    /\ ~( IsSome(rank_receiver) /\ channel # << >> ) => update(Self, channel) = Self
    /\ Len(channel) <= 1
    /\ channel # << >> => ( IsSome(rank_receiver) /\ is_fetching_rank )

\* a poll that finds a result applies it and clears the receiver and the
\* flag in that step, the channel going with the receiver
C19_PollStep ==
    /\ Drained =>
          /\ Assign(update_drain(Self, Head(channel)))
          /\ rank_receiver' = None
          /\ ~is_fetching_rank'
    /\ ( rank_cache' # rank_cache \/ replays' # replays ) =>
          ( Drained \/ scan_status' \in { "Found replays", "Found cached rank" } )

\* C19: a poll of the rank channel never blocks: one that finds no result
\* leaves the flag set, the receiver in place and the analyzer unchanged; one
\* that finds a result applies it once and clears the receiver and the flag
\* in the same tick, so that no result is applied twice.
C19_PollOnce == []C19_PollState /\ [][C19_PollStep]_vars

\* a result was applied and its receiver is gone
C19_Witness ==
    /\ scan_status = "Found rank"
    /\ rank_receiver = None
    /\ ~is_fetching_rank
    /\ channel = << >>
    /\ tasks = { }
    /\ spawned >= 1

\* C20 (as claimed): every dispatched rank fetch is followed by a tick that
\* clears the in-flight flag, however its task ends.
C20_FlagCleared == ( is_fetching_rank /\ ~crashed ) ~> ( ~is_fetching_rank \/ crashed )

-----------------------------------------------------------------------------
(* A result that arrives after the session has moved on *)

\* the names on the most recent replay
FirstNames == { replays[1].player1.name, replays[1].player2.name }

\* a task is spawned for the opponent of that moment, and the message it
\* sends carries the tag it was spawned with
C21_DispatchStep ==
    /\ \A t \in tasks' \ tasks : lookup_guard(Self) /\ t.tag = Opponent
    /\ ( channel' # channel /\ channel' # << >> ) =>
          \E t \in tasks \ tasks' : Head(channel') \in Messages(t.tag)

\* a drained result is applied whatever the connect code and the replay list
\* have become: cached under the tag of the message, and on success written
\* on the replay that is first now
C21_DrainStep ==
    Drained =>
       LET msg == Head(channel) IN
       /\ rank_cache' = insert(rank_cache, msg.tag, IF msg.ok THEN msg.val ELSE "Unknown")
       /\ msg.ok => replays' = set_first_rank(replays, msg.val)
       /\ ( msg.ok /\ replays # << >> ) =>
             /\ replays'[1].file_path = replays[1].file_path
             /\ replays'[1].opponent_rank = Some(msg.val)

\* C21: a drained rank result is applied unconditionally, a rescan or an edit
\* of the connect code since the dispatch notwithstanding: the rank is cached
\* under the opponent tag chosen at dispatch and, on success, written to
\* opponent_rank of the replay that is first at the drain.
C21_AppliedUnconditionally == [][C21_DispatchStep /\ C21_DrainStep]_vars

\* a fetched rank sits on a first replay that its tag did not play in: the
\* list was rescanned between the dispatch and the drain
C21_Witness ==
    /\ scan_status = "Found rank"
    /\ replays # << >>
    /\ replays[1].opponent_rank # None
    /\ DOMAIN rank_cache # { }
    /\ DOMAIN rank_cache \cap FirstNames = { }

-----------------------------------------------------------------------------
(* How a scan runs *)

\* a step of the "Scan Replays" handler
ScanClicked ==
    /\ Running
    /\ ScanEnabled
    /\ scan_status' # scan_status
    /\ scan_status' \in { "Scanning replays...", "Found replays" }

\* C22 (as claimed): a scan requested from the UI runs as a detached task: the
\* UI step that starts it returns with the scan still in progress, is_scanning
\* set and the replay list not yet replaced, so that later ticks observe
\* is_scanning = TRUE.
C22_ScanDetached ==
    [][ ( ScanClicked /\ ~crashed' ) => ( is_scanning' /\ replays' = replays ) ]_vars

-----------------------------------------------------------------------------
(* The duration of a parsed game *)

\* the frame-index stream of the game parse_replay was last called on
Frames == ParsedGame.frames

\* C23: the parsed duration is the last entry of the frame-index stream when
\* that entry is not null; it is absent when the stream is empty or its last
\* entry is null, earlier entries that are not null notwithstanding.
C23_LastFrame ==
    ( parsed.outcome # None /\ Unwrap(parsed.outcome).tag = "Ok" ) =>
        LET duration == Unwrap(parsed.outcome).info.duration IN
        /\ ( Frames # << >> /\ Frames[Len(Frames)] # None )
              => duration = Some(Frames[Len(Frames)][1])
        /\ ( Frames = << >> \/ Frames[Len(Frames)] = None ) => duration = None

\* a stream that ends in null after an entry that is not null was parsed to
\* no duration
C23_Witness ==
    /\ parsed.outcome # None
    /\ Unwrap(parsed.outcome).tag = "Ok"
    /\ Len(Frames) >= 2
    /\ Frames[1] # None
    /\ Frames[Len(Frames)] = None
    /\ Unwrap(parsed.outcome).info.duration = None

-----------------------------------------------------------------------------
(* What a scan leaves of the ranks *)

Unranked(rs) == \A i \in 1..Len(rs) : rs[i].opponent_rank = None

\* whatever the directory holds, a scan made now that completes leaves a list
\* without ranks
C24_ScanState ==
    ScanEnabled =>
       \A outcome \in AppOutcomes :
          scan_replays(Self, outcome).result = "Ok"
             => Unranked(scan_replays(Self, outcome).self.replays)

C24_ScanStep == ( ScanClicked /\ ~crashed' ) => Unranked(replays')

\* C24: right after a scan completes every replay of the list, the first
\* included, has no opponent_rank: the list is replaced by freshly parsed
\* records and a rank applied to the previous first replay is not carried
\* over, the same file being first again or not.
C24_FreshAfterScan == []C24_ScanState /\ [][C24_ScanStep]_vars

\* a scan has completed after a rank was fetched for the opponent of the
\* replay that is first again
C24_Witness ==
    /\ scan_status = "Found replays"
    /\ connect_code # ""
    /\ replays # << >>
    /\ Opponent \in DOMAIN rank_cache
    /\ rank_cache[Opponent] # "Unknown"
    /\ replays[1].opponent_rank = None

-----------------------------------------------------------------------------
(* The life of a cache entry *)

\* every entry of `old` is in `new` with the value it had
Keeps(old, new) ==
    \A y \in DOMAIN old : y \in DOMAIN new /\ new[y] = old[y]

\* neither a scan, nor the UI's lookup, nor the analyzer's own lookup made
\* now touches an entry, whatever the directory or the response
C25_CacheState ==
    /\ \A outcome \in AppOutcomes :
          scan_replays(Self, outcome).self.rank_cache = rank_cache
    /\ Keeps(rank_cache, LookupNow.self.rank_cache)
    /\ replays # << >> =>
          \A response \in Responses :
             Keeps(rank_cache,
                   analyzer_lookup_opponent_rank(replays, rank_cache, connect_code,
                                                 response).rank_cache)

C25_CacheStep ==
    /\ Keeps(rank_cache, rank_cache')
    /\ ScanClicked => rank_cache' = rank_cache

\* C25: once rank_cache holds a value for a tag, no operation (scan, lookup,
\* cache hit, drained success, drained failure) changes or removes the entry;
\* a scan leaves rank_cache as it was and the sentinel is never replaced by a
\* rank fetched later.
C25_EntriesStay == []C25_CacheState /\ [][C25_CacheStep]_vars

\* the sentinel of one tag is still there after a rank was fetched for
\* another tag and a scan was made
C25_Witness ==
    /\ scan_status = "Found replays"
    /\ \E y, z \in DOMAIN rank_cache : rank_cache[y] = "Unknown" /\ rank_cache[z] # "Unknown"
    /\ requests["B"] = 1
    /\ requests["Unknown"] = 1

-----------------------------------------------------------------------------
(* The in-flight flag and the receiver *)

InFlight(self) == self.is_fetching_rank /\ IsSome(self.rank_receiver)

Idle(self) == ~self.is_fetching_rank /\ self.rank_receiver = None

\* between handlers the flag is set exactly when there is a receiver; the
\* lookup handler returns with both clear (cache hit, or its guard failing
\* while idle) or both set (dispatch)
C26_FlagState ==
    /\ is_fetching_rank <=> IsSome(rank_receiver)
    /\ IF LookupNow.spawn = None
       THEN InFlight(LookupNow.self) <=> InFlight(Self)
       ELSE InFlight(LookupNow.self)
    /\ ( lookup_guard(Self) /\ Opponent \in DOMAIN rank_cache ) => Idle(LookupNow.self)

C26_FlagStep ==
    /\ tasks' # tasks /\ tasks' \ tasks # { } => InFlight(Self')
    /\ Drained => Idle(Self')
    /\ ( scan_status' = "Found cached rank" /\ scan_status # scan_status' ) => Idle(Self')

\* C26: at every boundary between UI ticks and between the request handlers,
\* is_fetching_rank is true exactly when rank_receiver holds a receiver: the
\* cache hit leaves both clear, a dispatch sets both, a drain clears both.
C26_FlagIffReceiver == []C26_FlagState /\ [][C26_FlagStep]_vars

\* a lookup answered from the cache, after an earlier dispatch and drain,
\* left both clear
C26_Witness ==
    /\ scan_status = "Found cached rank"
    /\ spawned >= 1
    /\ ~is_fetching_rank
    /\ rank_receiver = None
    /\ rank_cache # EmptyCache

-----------------------------------------------------------------------------
(* Placements the response does not give *)

\* the profile holds no number under the key: the key is missing or null
NoPlacement(profile, key) ==
    key \notin DOMAIN profile.fields \/ profile.fields[key] = JNull

\* the body has a rating of at least 2192 and neither placement
MasterWithoutPlacements(body) ==
    /\ HasRating(body)
    /\ ProfileOf(body).fields["ratingOrdinal"].num >= 2192
    /\ NoPlacement(ProfileOf(body), "dailyRegionalPlacement")
    /\ NoPlacement(ProfileOf(body), "dailyGlobalPlacement")

\* C27 (as claimed): when a placement is absent or null, the 32-bit value the
\* default i64::MAX becomes exceeds both thresholds (100 and 300), so a rating
\* of at least 2192 with both placements absent maps to a Master band and not
\* to "Grandmaster".
C27_AbsentPlacementIsMaster ==
    ( /\ fetch.outcome # None
      /\ Unwrap(fetch.response).kind = "json"
      /\ MasterWithoutPlacements(Unwrap(fetch.response).body) ) =>
         /\ placement(ProfileOf(Unwrap(fetch.response).body), "dailyRegionalPlacement") > 100
         /\ placement(ProfileOf(Unwrap(fetch.response).body), "dailyGlobalPlacement") > 300
         /\ Unwrap(fetch.outcome).val \in { "Master 1", "Master 2", "Master 3" }

-----------------------------------------------------------------------------
(* The ends of the tier tables *)

\* C28 (as claimed): neither table gives "Grandmaster" to a rating below 2192,
\* whatever the placements; every rating below the lowest breakpoint (766), a
\* negative one included, is "Bronze 1"; and no rating gets the label of the
\* fallback arm of web.rs.
C28_TableEnds ==
    tier.web # "" =>
        /\ tier.rating < 2192 => ( tier.web # "Grandmaster" /\ tier.peppi # "Grandmaster" )
        /\ tier.rating < 766 => ( tier.web = "Bronze 1" /\ tier.peppi = "Bronze 1" )
        /\ tier.web # "Unranked"

-----------------------------------------------------------------------------
(* Who the result names *)

\* the game has two start entries, its placement list has an entry for each
\* of their ports, and exactly one of them has placement 0
TwoPlayerGame(game) ==
    /\ Len(game.start_players) = 2
    /\ Len(Placed(game)) = 2
    /\ { Placed(game)[i].port : i \in 1..2 } = { game.start_players[i] : i \in 1..2 }
    /\ Cardinality(Winners(game)) = 1

\* C29 (as claimed): for a replay with exactly two player entries on any two
\* distinct ports, the result is Player1Won exactly when the entry with
\* placement 0 has the port recorded for player1, and Player2Won exactly when
\* it has the port recorded for player2.
C29_WinnerByPort ==
    ( /\ parsed.outcome # None
      /\ Unwrap(parsed.outcome).tag = "Ok"
      /\ TwoPlayerGame(ParsedGame) ) =>
         LET info == Unwrap(parsed.outcome).info
             won == Placed(ParsedGame)[FirstWinner(ParsedGame)].port
         IN  /\ info.result = "Player1Won" <=> won = info.player1.port
             /\ info.result = "Player2Won" <=> won = info.player2.port

-----------------------------------------------------------------------------
(* The placeholder name *)

\* C30 (as claimed): no request is ever issued for the tag "Unknown", the
\* parser's placeholder for a name it could not resolve: a lookup whose
\* opponent is "Unknown" returns without fetching, on the analyzer's lookup
\* path and on the UI's.
C30_NoUnknownRequest ==
    /\ requests["Unknown"] = 0
    /\ \A t \in tasks : t.tag # "Unknown"
    /\ ( lookup_guard(Self) /\ Opponent = "Unknown" ) => LookupNow.spawn = None
    /\ ( replays # << >> /\ Opponent = "Unknown" ) =>
          \A response \in Responses :
             ~analyzer_lookup_opponent_rank(replays, rank_cache, connect_code,
                                            response).requested

====
